---------------------------- MODULE Spec2Model ----------------------------
(***************************************************************************)
(* DIMOV-FINANCE: the ledger held by the App component and the financial   *)
(* engine calculateFinancials that turns it into a company summary and one *)
(* statement per partner.                                                  *)
(*                                                                         *)
(* Numbers.  The program computes in JavaScript numbers.  The model keeps  *)
(* every amount as an exact integer count of 1/Scale of a lev, so that the *)
(* three divisions the code makes (amount / PARTNERS.length, the 10 %      *)
(* corporate rate and the 5 % dividend rate) are exact on every value the  *)
(* model reaches; ExactArithmetic states that and holds as an invariant of *)
(* every specification.  Floating-point rounding is outside the model.     *)
(*                                                                         *)
(* Variables.  state is App's ledger; report is the state of ReportsView   *)
(* and of its call of generateReport, which only SpecReport moves; storage *)
(* is the localStorage item the App saves the ledger in; download is the   *)
(* backup file the last export wrote, which only SpecBackup moves; startup *)
(* is where the App is between its first render and the end of the first   *)
(* effects, which only SpecPersist moves.                                  *)
(*                                                                         *)
(* Records.  A payment, expense or dividend carries the fields that        *)
(* calculateFinancials reads (amounts, distributions, partnerId, the       *)
(* stamped tax), its date, and a payment its projectId.  A field absent    *)
(* from a parsed JSON file (undefined) is a flag: hasDistributions = FALSE *)
(* for the distributions, hasDate = FALSE for the date.                    *)
(***************************************************************************)
EXTENDS Integers, Sequences, FiniteSets, TLC

VARIABLES state, report, storage, download, startup

vars == <<state, report, storage, download, startup>>

(***************************************************************************)
(* constants.ts                                                            *)
(***************************************************************************)
PARTNERS ==
  << [id |-> "p1", name |-> "Plamen Dimov", role |-> "Upravitel"],
     [id |-> "p2", name |-> "Svetlozar Dimov", role |-> "Konstruktor"],
     [id |-> "p3", name |-> "Dimo Dimov", role |-> "Elektro proektant"] >>

INITIAL_STATE ==
  [projects |-> <<>>, payments |-> <<>>, expenses |-> <<>>, dividends |-> <<>>]

\* TAX_RATE = 0.10 and DIVIDEND_TAX_RATE = 0.05, as percentages
TAX_RATE_PERCENT == 10
DIVIDEND_TAX_RATE_PERCENT == 5

\* the ids of a roster
idsOf(roster) == {roster[i].id : i \in DOMAIN roster}

RosterIds == idsOf(PARTNERS)

(***************************************************************************)
(* Exact arithmetic: one lev is Scale units.                               *)
(***************************************************************************)
Scale == Len(PARTNERS) * 20

Lv(n) == n * Scale

\* x * rate, for a rate given as a percentage
TimesRate(x, percent) == (x * percent) \div 100

\* mutant: the clamp forgotten
MathMax0_unclamped(x) == x

\* Math.max(0, x)
MathMax0(x) == IF x > 0 THEN x ELSE 0

(***************************************************************************)
(* Strings.  A date is the text the program stores, kept as the sequence   *)
(* of its UTF-16 code units so that the comparisons the program makes on   *)
(* the text (>=, <=, substring, localeCompare) are made on the text here.  *)
(***************************************************************************)
Hyphen == 45

Digit(n) == 48 + n

Digits2(n) == << Digit(n \div 10), Digit(n % 10) >>

Digits4(n) == Digits2(n \div 100) \o Digits2(n % 100)

\* new Date(...).toISOString().split('T')[0], and the value of a date input
toISODate(year, month, day) ==
  Digits4(year) \o <<Hyphen>> \o Digits2(month) \o <<Hyphen>> \o Digits2(day)

\* s.substring(0, end)
substring0(s, end) == SubSeq(s, 1, IF end < Len(s) THEN end ELSE Len(s))

\* a < b on strings: by code units, a proper prefix first
RECURSIVE strLess(_, _)
strLess(a, b) ==
  IF Len(b) = 0 THEN FALSE
  ELSE IF Len(a) = 0 THEN TRUE
  ELSE IF Head(a) # Head(b) THEN Head(a) < Head(b)
  ELSE strLess(Tail(a), Tail(b))

\* a <= b and a >= b on strings
strLessEq(a, b) == a = b \/ strLess(a, b)

strGreaterEq(a, b) == strLessEq(b, a)

(***************************************************************************)
(* calculateFinancials                                                     *)
(***************************************************************************)

\* mutant: revenue summed from the distributions instead of the parent total
RECURSIVE sumDistributionAmounts(_)
sumDistributionAmounts(ds) ==
  IF Len(ds) = 0 THEN 0
  ELSE sumDistributionAmounts(SubSeq(ds, 1, Len(ds) - 1)) + ds[Len(ds)].amount

RECURSIVE sumTotalAmount_fromDistributions(_)
sumTotalAmount_fromDistributions(payments) ==
  IF Len(payments) = 0 THEN 0
  ELSE sumTotalAmount_fromDistributions(SubSeq(payments, 1, Len(payments) - 1))
         + sumDistributionAmounts(payments[Len(payments)].distributions)

\* state.payments.reduce((sum, p) => sum + p.totalAmount, 0)
RECURSIVE sumTotalAmount(_)
sumTotalAmount(payments) ==
  IF Len(payments) = 0 THEN 0
  ELSE sumTotalAmount(SubSeq(payments, 1, Len(payments) - 1))
         + payments[Len(payments)].totalAmount

\* state.expenses.reduce((sum, e) => sum + e.amount, 0)
RECURSIVE sumAmount(_)
sumAmount(expenses) ==
  IF Len(expenses) = 0 THEN 0
  ELSE sumAmount(SubSeq(expenses, 1, Len(expenses) - 1))
         + expenses[Len(expenses)].amount

\* mutant: the map started at one lev per partner
emptyExpenseMap_seeded(roster) == [id \in idsOf(roster) |-> Lv(1)]

\* PARTNERS.forEach(p => partnerExpenseMap[p.id] = 0)
emptyExpenseMap(roster) == [id \in idsOf(roster) |-> 0]

\* mutant: an amount naming nobody in the roster handed to the first partner
addDistribution_unknownToFirst(map, d) ==
  IF d.partnerId \in DOMAIN map
  THEN [map EXCEPT ![d.partnerId] = @ + d.amount]
  ELSE [id \in DOMAIN map |->
          IF id = PARTNERS[1].id THEN map[id] + d.amount ELSE map[id]]

\* partnerExpenseMap[d.partnerId] = (partnerExpenseMap[d.partnerId] || 0) + d.amount
addDistribution(map, d) ==
  IF d.partnerId \in DOMAIN map
  THEN [map EXCEPT ![d.partnerId] = @ + d.amount]
  ELSE map @@ (d.partnerId :> d.amount)

\* exp.distributions.forEach(d => ...)
RECURSIVE addDistributions(_, _)
addDistributions(map, ds) ==
  IF Len(ds) = 0 THEN map
  ELSE addDistribution(addDistributions(map, SubSeq(ds, 1, Len(ds) - 1)), ds[Len(ds)])

\* mutant: the share of a two-partner split
equalShare_half(exp, roster) == exp.amount \div 2

\* x / 0 in JavaScript numbers: no exception, a value that is not finite
divisionByZero(x) ==
  IF x > 0 THEN "Infinity" ELSE IF x < 0 THEN "-Infinity" ELSE "NaN"

\* const share = exp.amount / PARTNERS.length
equalShare(exp, roster) ==
  IF Len(roster) = 0 THEN divisionByZero(exp.amount)
  ELSE exp.amount \div Len(roster)

\* mutant: the equal split that leaves the last partner out
addShare_skipLast(map, share, roster) ==
  [id \in DOMAIN map |->
     IF id \in idsOf(SubSeq(roster, 1, Len(roster) - 1)) THEN map[id] + share ELSE map[id]]

\* PARTNERS.forEach(p => partnerExpenseMap[p.id] += share)
addShare(map, share, roster) ==
  [id \in DOMAIN map |-> IF id \in idsOf(roster) THEN map[id] + share ELSE map[id]]

\* !exp.distributions || exp.distributions.length === 0
noDistributions(exp) == (~exp.hasDistributions) \/ Len(exp.distributions) = 0

\* mutant: the equal split applied to every expense, distributed or not
expenseStep_alwaysSplit(map, exp, roster) ==
  IF noDistributions(exp)
  THEN addShare(map, equalShare(exp, roster), roster)
  ELSE addShare(addDistributions(map, exp.distributions), equalShare(exp, roster), roster)

\* the body of state.expenses.forEach(exp => ...)
expenseStep(map, exp, roster) ==
  IF noDistributions(exp)
  THEN addShare(map, equalShare(exp, roster), roster)
  ELSE addDistributions(map, exp.distributions)

RECURSIVE partnerExpenseMap(_, _)
partnerExpenseMap(expenses, roster) ==
  IF Len(expenses) = 0 THEN emptyExpenseMap(roster)
  ELSE expenseStep(partnerExpenseMap(SubSeq(expenses, 1, Len(expenses) - 1), roster),
                   expenses[Len(expenses)], roster)

\* p.distributions.find(...) on a payment whose distributions field is
\* undefined: TypeError, cannot read properties of undefined
findThrows(p) == ~p.hasDistributions

\* p.distributions.find(d => d.partnerId === partner.id): the first match, or none
findIndex(ds, id) ==
  IF \E i \in DOMAIN ds : ds[i].partnerId = id
  THEN CHOOSE i \in DOMAIN ds :
         /\ ds[i].partnerId = id
         /\ \A j \in DOMAIN ds : ds[j].partnerId = id => i <= j
  ELSE 0

\* mutant: a named partner credited with the whole payment
paymentShare_wholePayment(p, id) ==
  IF findIndex(p.distributions, id) = 0 THEN 0 ELSE p.totalAmount

\* dist ? dist.amount : 0
paymentShare(p, id) ==
  IF findIndex(p.distributions, id) = 0 THEN 0
  ELSE p.distributions[findIndex(p.distributions, id)].amount

\* state.payments.reduce((sum, p) => sum + (dist ? dist.amount : 0), 0)
RECURSIVE partnerRevenue(_, _)
partnerRevenue(payments, id) ==
  IF Len(payments) = 0 THEN 0
  ELSE partnerRevenue(SubSeq(payments, 1, Len(payments) - 1), id)
         + paymentShare(payments[Len(payments)], id)

\* partnerExpenseMap[partner.id] || 0
expenseShareOf(map, id) == IF id \in DOMAIN map THEN map[id] ELSE 0

\* mutant: the tax share computed on a negative base too
corporateTaxShareOf_unconditional(taxableBase) ==
  TimesRate(taxableBase, TAX_RATE_PERCENT)

\* mutant: the partner's share taxed at the dividend rate
corporateTaxShareOf_dividendRate(taxableBase) ==
  IF taxableBase > 0 THEN TimesRate(taxableBase, DIVIDEND_TAX_RATE_PERCENT) ELSE 0

\* taxableBase > 0 ? taxableBase * TAX_RATE : 0
corporateTaxShareOf(taxableBase) ==
  IF taxableBase > 0 THEN TimesRate(taxableBase, TAX_RATE_PERCENT) ELSE 0

\* mutant: every dividend counted for every partner
dividendsOf_unfiltered(dividends, id) == dividends

\* state.dividends.filter(d => d.partnerId === partner.id)
dividendsOf(dividends, id) == SelectSeq(dividends, LAMBDA d : d.partnerId = id)

\* .reduce((sum, d) => sum + d.grossAmount, 0)
RECURSIVE sumGrossAmount(_)
sumGrossAmount(ds) ==
  IF Len(ds) = 0 THEN 0
  ELSE sumGrossAmount(SubSeq(ds, 1, Len(ds) - 1)) + ds[Len(ds)].grossAmount

\* mutant: the tax worked out again from the gross amount and today's rate
RECURSIVE sumTaxAmount_recomputed(_)
sumTaxAmount_recomputed(ds) ==
  IF Len(ds) = 0 THEN 0
  ELSE sumTaxAmount_recomputed(SubSeq(ds, 1, Len(ds) - 1))
         + TimesRate(ds[Len(ds)].grossAmount, DIVIDEND_TAX_RATE_PERCENT)

\* .reduce((sum, d) => sum + d.taxAmount, 0)
RECURSIVE sumTaxAmount(_)
sumTaxAmount(ds) ==
  IF Len(ds) = 0 THEN 0
  ELSE sumTaxAmount(SubSeq(ds, 1, Len(ds) - 1)) + ds[Len(ds)].taxAmount

dividendsTakenOf(dividends, id) == sumGrossAmount(dividendsOf(dividends, id))

dividendTaxPaidOf(dividends, id) == sumTaxAmount(dividendsOf(dividends, id))

\* mutant: a balance that stops at zero
balanceOf_clamped(netProfitShare, dividendsTaken) ==
  MathMax0(netProfitShare - dividendsTaken)

\* balance = netProfitShare - dividendsTaken
balanceOf(netProfitShare, dividendsTaken) == netProfitShare - dividendsTaken

\* the body of PARTNERS.map(partner => ...)
partnerStat(st, map, partner) ==
  LET revenue == partnerRevenue(st.payments, partner.id)
      expenseShare == expenseShareOf(map, partner.id)
      taxableBase == revenue - expenseShare
      corporateTaxShare == corporateTaxShareOf(taxableBase)
      netProfitShare == taxableBase - corporateTaxShare
      dividendsTaken == dividendsTakenOf(st.dividends, partner.id)
      dividendTaxPaid == dividendTaxPaidOf(st.dividends, partner.id)
  IN [partnerId |-> partner.id,
      name |-> partner.name,
      revenue |-> revenue,
      expenseShare |-> expenseShare,
      taxableBase |-> taxableBase,
      corporateTaxShare |-> corporateTaxShare,
      netProfitShare |-> netProfitShare,
      dividendsTakenGross |-> dividendsTaken,
      dividendTaxPaid |-> dividendTaxPaid,
      balance |-> balanceOf(netProfitShare, dividendsTaken)]

\* mutant: revenue counted for the payments of listed projects only
summaryOf_listedProjectsOnly(st) ==
  LET listed == SelectSeq(st.payments, LAMBDA p :
                  \E i \in DOMAIN st.projects : st.projects[i].id = p.projectId)
      totalRevenue == sumTotalAmount(listed)
      totalExpenses == sumAmount(st.expenses)
      taxableProfit == MathMax0(totalRevenue - totalExpenses)
      corporateTax == TimesRate(taxableProfit, TAX_RATE_PERCENT)
  IN [totalRevenue |-> totalRevenue,
      totalExpenses |-> totalExpenses,
      taxableProfit |-> taxableProfit,
      corporateTax |-> corporateTax,
      netProfit |-> totalRevenue - totalExpenses - corporateTax]

\* the company figures
summaryOf(st) ==
  LET totalRevenue == sumTotalAmount(st.payments)
      totalExpenses == sumAmount(st.expenses)
      taxableProfit == MathMax0(totalRevenue - totalExpenses)
      corporateTax == TimesRate(taxableProfit, TAX_RATE_PERCENT)
  IN [totalRevenue |-> totalRevenue,
      totalExpenses |-> totalExpenses,
      taxableProfit |-> taxableProfit,
      corporateTax |-> corporateTax,
      netProfit |-> totalRevenue - totalExpenses - corporateTax]

\* mutant: the whole date as the key of the monthly map
monthOf_wholeDate(entry) == entry.date

\* e.date.substring(0, 7): the month of an entry
monthOf(entry) == substring0(entry.date, 7)

\* p.date.substring throws TypeError when the entry has no date field
substringThrows(entry) == ~entry.hasDate

\* the keys of monthlyMap after the two forEach loops
monthsOf(st) ==
  {monthOf(st.payments[i]) : i \in DOMAIN st.payments}
    \cup {monthOf(st.expenses[i]) : i \in DOMAIN st.expenses}

\* monthlyMap[month] after the two forEach loops
monthlyMapEntry(st, month) ==
  [name |-> month,
   income |-> sumTotalAmount(SelectSeq(st.payments, LAMBDA p : monthOf(p) = month)),
   expense |-> sumAmount(SelectSeq(st.expenses, LAMBDA x : monthOf(x) = month))]

\* a.name.localeCompare(b.name) < 0, for the digits and hyphens of a date
localeCompareLess(a, b) == strLess(a.name, b.name)

\* Object.values(monthlyMap).sort(by name): the names are distinct keys
RECURSIVE sortByName(_)
sortByName(values) ==
  IF values = {} THEN <<>>
  ELSE LET first == CHOOSE v \in values :
                      \A w \in values \ {v} : localeCompareLess(v, w)
       IN <<first>> \o sortByName(values \ {first})

monthlyDataOf(st) == sortByName({monthlyMapEntry(st, month) : month \in monthsOf(st)})

\* the callback of PARTNERS.map runs once per partner and its reduce calls
\* find on every payment: with a partner in the roster, one payment without
\* its distributions field makes the call throw; so does, in the monthly
\* loops, a payment or an expense without its date field
engineThrows(st, roster) ==
  \/ /\ Len(roster) > 0
     /\ \E i \in DOMAIN st.payments : findThrows(st.payments[i])
  \/ \E i \in DOMAIN st.payments : substringThrows(st.payments[i])
  \/ \E i \in DOMAIN st.expenses : substringThrows(st.expenses[i])

\* mutant: statements only for the partners with revenue, expenses or dividends
calculateFinancialsOf_activeOnly(st, roster) ==
  LET map == partnerExpenseMap(st.expenses, roster)
      active == SelectSeq(roster, LAMBDA partner :
                  \/ partnerRevenue(st.payments, partner.id) # 0
                  \/ expenseShareOf(map, partner.id) # 0
                  \/ Len(dividendsOf(st.dividends, partner.id)) # 0)
  IN [threw |-> FALSE,
      summary |-> summaryOf(st),
      partnerStats |-> [i \in DOMAIN active |-> partnerStat(st, map, active[i])],
      monthlyData |-> monthlyDataOf(st)]

\* calculateFinancials with PARTNERS as a parameter: what the call returns,
\* or that it threw.  The code has no check of the roster and no try.
calculateFinancialsOf(st, roster) ==
  IF engineThrows(st, roster)
  THEN [threw |-> TRUE, error |-> "TypeError"]
  ELSE LET map == partnerExpenseMap(st.expenses, roster)
       IN [threw |-> FALSE,
           summary |-> summaryOf(st),
           partnerStats |-> [i \in DOMAIN roster |-> partnerStat(st, map, roster[i])],
           monthlyData |-> monthlyDataOf(st)]

calculateFinancials(st) == calculateFinancialsOf(st, PARTNERS)

\* const financials = useMemo(() => calculateFinancials(state), [state])
financials == calculateFinancials(state)

(***************************************************************************)
(* calculateFinancials of the earlier App (no monthlyData), translated     *)
(* from its own text: each reduce is the sum of the mapped array.          *)
(***************************************************************************)
RECURSIVE reduceSum(_)
reduceSum(numbers) ==
  IF Len(numbers) = 0 THEN 0 ELSE Head(numbers) + reduceSum(Tail(numbers))

\* what one expense adds to partnerExpenseMap[id], id a roster partner
expenseAddsTo(exp, id) ==
  IF ~exp.hasDistributions \/ Len(exp.distributions) = 0
  THEN exp.amount \div Len(PARTNERS)
  ELSE reduceSum([i \in DOMAIN exp.distributions |->
                   IF exp.distributions[i].partnerId = id
                   THEN exp.distributions[i].amount ELSE 0])

\* dist ? dist.amount : 0, dist the first distribution naming the partner
foundAmount(p, id) ==
  LET named == SelectSeq(p.distributions, LAMBDA d : d.partnerId = id)
  IN IF Len(named) = 0 THEN 0 ELSE named[1].amount

partnerStat_part000(st, partner) ==
  LET revenue == reduceSum([i \in DOMAIN st.payments |->
                              foundAmount(st.payments[i], partner.id)])
      expenseShare == reduceSum([i \in DOMAIN st.expenses |->
                                   expenseAddsTo(st.expenses[i], partner.id)])
      taxableBase == revenue - expenseShare
      corporateTaxShare == IF taxableBase > 0
                           THEN TimesRate(taxableBase, TAX_RATE_PERCENT) ELSE 0
      netProfitShare == taxableBase - corporateTaxShare
      own == SelectSeq(st.dividends, LAMBDA d : d.partnerId = partner.id)
      dividendsTaken == reduceSum([i \in DOMAIN own |-> own[i].grossAmount])
      dividendTaxPaid == reduceSum([i \in DOMAIN own |-> own[i].taxAmount])
  IN [partnerId |-> partner.id,
      name |-> partner.name,
      revenue |-> revenue,
      expenseShare |-> expenseShare,
      taxableBase |-> taxableBase,
      corporateTaxShare |-> corporateTaxShare,
      netProfitShare |-> netProfitShare,
      dividendsTakenGross |-> dividendsTaken,
      dividendTaxPaid |-> dividendTaxPaid,
      balance |-> netProfitShare - dividendsTaken]

calculateFinancials_part000(st) ==
  IF \E i \in DOMAIN st.payments : ~st.payments[i].hasDistributions
  THEN [threw |-> TRUE, error |-> "TypeError"]
  ELSE LET totalRevenue == reduceSum([i \in DOMAIN st.payments |->
                                        st.payments[i].totalAmount])
           totalExpenses == reduceSum([i \in DOMAIN st.expenses |->
                                         st.expenses[i].amount])
           taxableProfit == IF totalRevenue - totalExpenses > 0
                            THEN totalRevenue - totalExpenses ELSE 0
           corporateTax == TimesRate(taxableProfit, TAX_RATE_PERCENT)
       IN [threw |-> FALSE,
           summary |-> [totalRevenue |-> totalRevenue,
                        totalExpenses |-> totalExpenses,
                        taxableProfit |-> taxableProfit,
                        corporateTax |-> corporateTax,
                        netProfit |-> totalRevenue - totalExpenses - corporateTax],
           partnerStats |-> [i \in DOMAIN PARTNERS |->
                               partnerStat_part000(st, PARTNERS[i])]]

(***************************************************************************)
(* JSON.  A text is kept as the tree of the document it spells, with every *)
(* number and every date as the characters of its literal; the ids and     *)
(* names stay the strings they are.  A key that is absent from an object   *)
(* is absent from its keys.  NotJSON is a text that JSON.parse rejects.    *)
(***************************************************************************)
QuotationMark == 34

PercentSign == 37

RECURSIVE digitsOf(_)
digitsOf(n) ==
  IF n < 10 THEN <<Digit(n)>> ELSE digitsOf(n \div 10) \o <<Digit(n % 10)>>

\* JSON.stringify of a number
numberToText(n) == IF n < 0 THEN <<Hyphen>> \o digitsOf(-n) ELSE digitsOf(n)

RECURSIVE valueOfDigits(_)
valueOfDigits(text) ==
  IF Len(text) = 0 THEN 0
  ELSE 10 * valueOfDigits(SubSeq(text, 1, Len(text) - 1))
         + (text[Len(text)] - Digit(0))

\* JSON.parse of a number literal
textToNumber(text) ==
  IF Len(text) > 0 /\ Head(text) = Hyphen
  THEN 0 - valueOfDigits(Tail(text))
  ELSE valueOfDigits(text)

\* JSON.stringify of a string of digits and hyphens, and JSON.parse of it
quoted(string) == <<QuotationMark>> \o string \o <<QuotationMark>>

unquoted(text) == SubSeq(text, 2, Len(text) - 1)

stringifyDistribution(d) ==
  [partnerId |-> d.partnerId, amount |-> numberToText(d.amount)]

parseDistribution(object) ==
  [partnerId |-> object.partnerId, amount |-> textToNumber(object.amount)]

\* undefined fields are left out of the object
keysOf(entry, always) ==
  always \cup (IF entry.hasDate THEN {"date"} ELSE {})
         \cup (IF entry.hasDistributions THEN {"distributions"} ELSE {})

stringifyDistributions(entry) ==
  IF entry.hasDistributions
  THEN [i \in DOMAIN entry.distributions |->
          stringifyDistribution(entry.distributions[i])]
  ELSE <<>>

parseDistributions(object) ==
  IF "distributions" \in object.keys
  THEN [i \in DOMAIN object.distributions |->
          parseDistribution(object.distributions[i])]
  ELSE <<>>

stringifyPayment(p) ==
  [keys |-> keysOf(p, {"projectId", "totalAmount"}),
   projectId |-> p.projectId,
   totalAmount |-> numberToText(p.totalAmount),
   date |-> IF p.hasDate THEN quoted(p.date) ELSE <<>>,
   distributions |-> stringifyDistributions(p)]

parsePayment(object) ==
  [projectId |-> object.projectId,
   totalAmount |-> textToNumber(object.totalAmount),
   date |-> IF "date" \in object.keys THEN unquoted(object.date) ELSE <<>>,
   hasDate |-> "date" \in object.keys,
   distributions |-> parseDistributions(object),
   hasDistributions |-> "distributions" \in object.keys]

stringifyExpense(x) ==
  [keys |-> keysOf(x, {"amount"}),
   amount |-> numberToText(x.amount),
   date |-> IF x.hasDate THEN quoted(x.date) ELSE <<>>,
   distributions |-> stringifyDistributions(x)]

parseExpense(object) ==
  [amount |-> textToNumber(object.amount),
   date |-> IF "date" \in object.keys THEN unquoted(object.date) ELSE <<>>,
   hasDate |-> "date" \in object.keys,
   distributions |-> parseDistributions(object),
   hasDistributions |-> "distributions" \in object.keys]

stringifyDividend(d) ==
  [partnerId |-> d.partnerId,
   grossAmount |-> numberToText(d.grossAmount),
   taxAmount |-> numberToText(d.taxAmount),
   netReceived |-> numberToText(d.netReceived),
   date |-> quoted(d.date)]

parseDividend(object) ==
  [partnerId |-> object.partnerId,
   grossAmount |-> textToNumber(object.grossAmount),
   taxAmount |-> textToNumber(object.taxAmount),
   netReceived |-> textToNumber(object.netReceived),
   date |-> unquoted(object.date)]

\* JSON.stringify(state)
JSONstringify(st) ==
  [valid |-> TRUE,
   projects |-> st.projects,
   payments |-> [i \in DOMAIN st.payments |-> stringifyPayment(st.payments[i])],
   expenses |-> [i \in DOMAIN st.expenses |-> stringifyExpense(st.expenses[i])],
   dividends |-> [i \in DOMAIN st.dividends |-> stringifyDividend(st.dividends[i])]]

NotJSON == [valid |-> FALSE]

\* JSON.parse(text): the value, or that it threw SyntaxError
JSONparse(text) ==
  IF ~text.valid
  THEN [threw |-> TRUE, error |-> "SyntaxError"]
  ELSE [threw |-> FALSE,
        value |->
          [projects |-> text.projects,
           payments |-> [i \in DOMAIN text.payments |-> parsePayment(text.payments[i])],
           expenses |-> [i \in DOMAIN text.expenses |-> parseExpense(text.expenses[i])],
           dividends |-> [i \in DOMAIN text.dividends |->
                            parseDividend(text.dividends[i])]]]

(***************************************************************************)
(* localStorage and the save effect.  useEffect(() => localStorage.setItem *)
(* (key, JSON.stringify(state)), [state]) runs after every render that a   *)
(* change of state caused, so it is part of every operation that sets the  *)
(* state.  A render in which calculateFinancials throws is never committed *)
(* and its effects do not run.                                             *)
(***************************************************************************)
\* the item under 'dimov_finance_app_v2'
stored(text) == [present |-> TRUE, text |-> text]

noItem == [present |-> FALSE, text |-> NotJSON]

\* mutant: the effect with an empty dependency list, run after the first render only
saveEffect_firstRenderOnly == UNCHANGED storage

saveEffect ==
  storage' = IF engineThrows(state', PARTNERS)
             THEN storage
             ELSE stored(JSONstringify(state'))

(***************************************************************************)
(* What the forms hand to the record operations.  Amounts arrive converted *)
(* to BGN.                                                                 *)
(***************************************************************************)
MaxEntries == 3

\* Date.now().toString(), as seen by addProject
Timestamps == {"t1"}

ProjectNames == {"", "Sklad"}

\* the forms' date as they open: new Date().toISOString().split('T')[0]
Today == toISODate(2024, 2, 10)

ProjectTypes == {"construction"}

Dist(id, amount) == [partnerId |-> id, amount |-> amount]

\* IncomeView.handleSave: the total and the positive splits, one per partner
\* at most, which need not add up to the total
PaymentInputs ==
  { [total |-> Lv(100), dists |-> <<>>],
    [total |-> Lv(100), dists |-> <<Dist("p1", Lv(100))>>],
    [total |-> Lv(100), dists |-> <<Dist("p1", Lv(50)), Dist("p2", Lv(50))>>],
    [total |-> Lv(100), dists |-> <<Dist("p3", Lv(50))>>],
    [total |-> Lv(50), dists |-> <<Dist("p2", Lv(100))>>] }

ExpenseAmounts == {Lv(90)}

DistTypes == {"general", "plamen_svetlo", "individual"}

\* ExpensesView.handleSave: the distributions of the three kinds of expense
expenseDistributions(distType, selectedPartner, finalValInBgn) ==
  CASE distType = "plamen_svetlo" ->
         << Dist("p1", finalValInBgn \div 2), Dist("p2", finalValInBgn \div 2) >>
    [] distType = "general" -> <<>>
    [] distType = "individual" -> << Dist(selectedPartner, finalValInBgn) >>

\* the expenses ExpensesView.handleSave records; selectedPartner matters to
\* an individual expense only
ExpenseInputs ==
  { [amount |-> a, dists |-> expenseDistributions(t, p, a)] :
      a \in ExpenseAmounts, t \in DistTypes, p \in RosterIds }

GrossAmounts == {Lv(40), Lv(100)}

(***************************************************************************)
(* The record operations of App                                            *)
(***************************************************************************)
entries(st) ==
  Len(st.projects) + Len(st.payments) + Len(st.expenses) + Len(st.dividends)

newProject(id, name, type) == [id |-> id, name |-> name, type |-> type]

addProject(id, name, type) ==
  /\ entries(state) < MaxEntries
  /\ name # ""
  /\ state' = [state EXCEPT !.projects = Append(@, newProject(id, name, type))]
  /\ saveEffect
  /\ UNCHANGED <<report, download, startup>>

newExpense(amount, date, distributions) ==
  [amount |-> amount, date |-> date, hasDate |-> TRUE,
   distributions |-> distributions, hasDistributions |-> TRUE]

\* mutant: the new expense put in front of the list
addExpense_prepending(amount, date, distributions) ==
  /\ entries(state) < MaxEntries
  /\ state' = [state EXCEPT !.expenses = <<newExpense(amount, date, distributions)>> \o @]
  /\ saveEffect
  /\ UNCHANGED <<report, download, startup>>

addExpense(amount, date, distributions) ==
  /\ entries(state) < MaxEntries
  /\ state' = [state EXCEPT !.expenses = Append(@, newExpense(amount, date, distributions))]
  /\ saveEffect
  /\ UNCHANGED <<report, download, startup>>

newPayment(projectId, total, date, dists) ==
  [projectId |-> projectId, totalAmount |-> total, date |-> date, hasDate |-> TRUE,
   distributions |-> dists, hasDistributions |-> TRUE]

addPayment(projectId, total, date, dists) ==
  /\ entries(state) < MaxEntries
  /\ state' = [state EXCEPT !.payments = Append(@, newPayment(projectId, total, date, dists))]
  /\ saveEffect
  /\ UNCHANGED <<report, download, startup>>

\* mutant: the dividend stamped with the corporate rate
newDiv_corporateRate(partnerId, grossAmount, date) ==
  LET tax == TimesRate(grossAmount, TAX_RATE_PERCENT)
      net == grossAmount - tax
  IN [partnerId |-> partnerId,
      grossAmount |-> grossAmount,
      taxAmount |-> tax,
      netReceived |-> net,
      date |-> date]

newDiv(partnerId, grossAmount, date) ==
  LET tax == TimesRate(grossAmount, DIVIDEND_TAX_RATE_PERCENT)
      net == grossAmount - tax
  IN [partnerId |-> partnerId,
      grossAmount |-> grossAmount,
      taxAmount |-> tax,
      netReceived |-> net,
      date |-> date]

addDividend(partnerId, grossAmount, date) ==
  /\ entries(state) < MaxEntries
  /\ state' = [state EXCEPT !.dividends = Append(@, newDiv(partnerId, grossAmount, date))]
  /\ saveEffect
  /\ UNCHANGED <<report, download, startup>>

\* mutant: the deletion taking the project's payments with it
deleteProject_cascade(projectToDelete) ==
  /\ \E i \in DOMAIN state.projects : state.projects[i].id = projectToDelete
  /\ state' = [state EXCEPT
                 !.projects = SelectSeq(@, LAMBDA pr : pr.id # projectToDelete),
                 !.payments = SelectSeq(@, LAMBDA p : p.projectId # projectToDelete)]
  /\ saveEffect
  /\ UNCHANGED <<report, download, startup>>

\* ProjectsView: the confirmed deletion of a listed project
deleteProject(projectToDelete) ==
  /\ \E i \in DOMAIN state.projects : state.projects[i].id = projectToDelete
  /\ state' = [state EXCEPT
                 !.projects = SelectSeq(@, LAMBDA pr : pr.id # projectToDelete)]
  /\ saveEffect
  /\ UNCHANGED <<report, download, startup>>

\* mutant: the reset that spares the projects
resetData_keepsProjects ==
  /\ state # INITIAL_STATE
  /\ state' = [INITIAL_STATE EXCEPT !.projects = state.projects]
  /\ saveEffect
  /\ UNCHANGED <<report, download, startup>>

\* SettingsView: window.confirm(...) answered yes
resetData ==
  /\ state # INITIAL_STATE
  /\ state' = INITIAL_STATE
  /\ saveEffect
  /\ UNCHANGED <<report, download, startup>>

\* SettingsView: if(window.confirm(...)) setState(INITIAL_STATE)
handleReset(confirmed) ==
  IF confirmed THEN resetData ELSE UNCHANGED vars

(***************************************************************************)
(* handleImport: the file's text is parsed and, when it parses, becomes    *)
(* the state as it is.  The files are backups that no form could have      *)
(* written: repeated partners, partners outside the roster, an expense     *)
(* without its distributions field, dividends stamped under another rate.  *)
(***************************************************************************)
StampedDiv(id, gross, tax) ==
  [partnerId |-> id, grossAmount |-> gross, taxAmount |-> tax, netReceived |-> gross - tax,
   date |-> Today]

ImportFiles ==
  { [parses |-> FALSE, json |-> INITIAL_STATE],
    [parses |-> TRUE,
     json |-> [INITIAL_STATE EXCEPT
       !.payments = << newPayment("t1", Lv(100), Today, <<Dist("p1", Lv(30)), Dist("p1", Lv(50))>>) >>,
       !.expenses = << newExpense(Lv(90), Today, <<Dist("p1", Lv(30)), Dist("p1", Lv(40))>>) >>]],
    [parses |-> TRUE,
     json |-> [INITIAL_STATE EXCEPT
       !.payments = << newPayment("t1", Lv(100), Today, <<Dist("px", Lv(50)), Dist("p2", Lv(50))>>) >>,
       !.expenses = << newExpense(Lv(90), Today, <<Dist("px", Lv(90))>>) >>]],
    [parses |-> TRUE,
     json |-> [INITIAL_STATE EXCEPT
       !.expenses = << [amount |-> Lv(90), date |-> Today, hasDate |-> TRUE,
                        distributions |-> <<>>, hasDistributions |-> FALSE] >>,
       !.dividends = << StampedDiv("p1", Lv(100), Lv(10)) >>]],
    [parses |-> TRUE,
     json |-> [INITIAL_STATE EXCEPT
       !.payments = << newPayment("", Lv(100), Today, <<Dist("p1", Lv(100))>>) >>,
       !.dividends = << StampedDiv("px", Lv(40), Lv(2)) >>]] }

handleImport(file) ==
  /\ IF file.parses
     THEN state' = file.json /\ saveEffect
     ELSE UNCHANGED <<state, storage>>
  /\ UNCHANGED <<report, download, startup>>

(***************************************************************************)
(* ReportsView and geminiService.generateReport.  report holds the         *)
(* component's loading and aiReport and the promise generateReport         *)
(* returned to the last click.  The library behind getClient and           *)
(* generateContent is not part of the program: the constructor returns a   *)
(* client or throws (the browser client refuses an absent API key), the    *)
(* request resolves with text, resolves with no text, or rejects.          *)
(***************************************************************************)
\* useState('') and useState(false); no call made yet
INITIAL_REPORT == [loading |-> FALSE, aiReport |-> "", promise |-> "none", value |-> ""]

ReportFallback == "Neuspeshno generirane na otchet."

ReportError == "Vuznikna greshka pri vruzkata s AI uslugata. Molya, proverete API klyucha."

\* new GoogleGenAI({ apiKey: process.env.API_KEY })
ClientOutcomes == {"constructed", "throws"}

\* await ai.models.generateContent(...)
ResponseOutcomes ==
  { [rejects |-> FALSE, text |-> "Otchet za mesetsa"],
    [rejects |-> FALSE, text |-> ""],
    [rejects |-> TRUE, text |-> ""] }

\* response.text || fallback
textOrFallback(text) == IF text = "" THEN ReportFallback ELSE text

\* generateReport up to its await: getClient() is called before the try,
\* so a constructor that throws rejects the promise of the async function
generateReport_called(client) ==
  IF client = "throws"
  THEN [promise |-> "rejected", value |-> ""]
  ELSE [promise |-> "pending", value |-> ""]

\* generateReport from its await on: the try returns the text or the
\* fallback, the catch returns the error string
generateReport_settled(outcome) ==
  IF outcome.rejects
  THEN [promise |-> "fulfilled", value |-> ReportError]
  ELSE [promise |-> "fulfilled", value |-> textOrFallback(outcome.text)]

\* the click on the report button, which is rendered while there is a
\* payment and loading is false: setLoading(true), then the call; what
\* follows the await of a rejected promise never runs
handleGenerateReport(client) ==
  /\ Len(state.payments) > 0
  /\ ~report.loading
  /\ LET call == generateReport_called(client)
     IN report' = [report EXCEPT !.loading = TRUE,
                                 !.promise = call.promise,
                                 !.value = call.value]
  /\ UNCHANGED <<state, storage, download, startup>>

\* the request settles and handleGenerateReport resumes after its await:
\* setAiReport(text); setLoading(false)
handleGenerateReport_resumed(outcome) ==
  /\ report.promise = "pending"
  /\ LET call == generateReport_settled(outcome)
     IN report' = [loading |-> FALSE,
                   aiReport |-> call.value,
                   promise |-> call.promise,
                   value |-> call.value]
  /\ UNCHANGED <<state, storage, download, startup>>

(***************************************************************************)
(* The specifications                                                      *)
(***************************************************************************)
\* no effect of the first render is left to run
settled == [phase |-> "settled", queued |-> FALSE, value |-> INITIAL_STATE]

noDownload == [saved |-> FALSE, text |-> NotJSON]

\* the first launch, after the effects of the first render
Init ==
  /\ state = INITIAL_STATE
  /\ report = INITIAL_REPORT
  /\ storage = stored(JSONstringify(INITIAL_STATE))
  /\ download = noDownload
  /\ startup = settled

\* the ids the ledger has seen: of its projects and of its payments' projects
SeenIds(st) ==
  {st.projects[i].id : i \in DOMAIN st.projects}
    \cup ({st.payments[i].projectId : i \in DOMAIN st.payments} \cap Timestamps)

\* the clock does not go back: a new id is none of the ids seen
NowReadings(st) == Timestamps \ SeenIds(st)

Reset == \E confirmed \in BOOLEAN : handleReset(confirmed)

RecordProject ==
  \E id \in NowReadings(state), n \in ProjectNames, t \in ProjectTypes : addProject(id, n, t)

\* IncomeView: projectId is '' until a project exists, then the id of a
\* listed project (the first one, or the one picked in the select)
ProjectChoices(st) ==
  IF Len(st.projects) = 0 THEN {""}
  ELSE {st.projects[i].id : i \in DOMAIN st.projects}

RecordPayment ==
  \E in \in PaymentInputs, projectId \in ProjectChoices(state) :
    addPayment(projectId, in.total, Today, in.dists)

RecordExpense == \E in \in ExpenseInputs : addExpense(in.amount, Today, in.dists)

RecordDividend == \E p \in RosterIds, g \in GrossAmounts : addDividend(p, g, Today)

DeleteProject == \E id \in Timestamps : deleteProject(id)

Import == \E file \in ImportFiles : handleImport(file)

\* the operations that build a ledger from the empty one
NextRecord ==
  \/ RecordProject
  \/ RecordPayment
  \/ RecordExpense
  \/ RecordDividend
  \/ DeleteProject
  \/ Reset

Next ==
  \/ RecordProject
  \/ RecordPayment
  \/ RecordExpense
  \/ RecordDividend
  \/ DeleteProject
  \/ Reset
  \/ Import

Spec == Init /\ [][Next]_vars

SpecRecord == Init /\ [][NextRecord]_vars

GenerateReport == \E client \in ClientOutcomes : handleGenerateReport(client)

ReportArrives == \E outcome \in ResponseOutcomes : handleGenerateReport_resumed(outcome)

\* the record operations and the report
NextReport ==
  \/ RecordProject
  \/ RecordPayment
  \/ RecordExpense
  \/ RecordDividend
  \/ DeleteProject
  \/ Reset
  \/ GenerateReport
  \/ ReportArrives

SpecReport == Init /\ [][NextReport]_vars

(***************************************************************************)
(* Files without types.  JSON.parse checks no shape, so a file may hold a  *)
(* payment without its distributions field, or one without its date.       *)
(* setState(json) takes it, the next render calls calculateFinancials,     *)
(* the call throws, and React,                                             *)
(* having no error boundary above App, unmounts the tree: no form and no   *)
(* button is left to act on the ledger.                                    *)
(***************************************************************************)
UntypedPayment(total) ==
  [projectId |-> "", totalAmount |-> total, date |-> Today, hasDate |-> TRUE,
   distributions |-> <<>>, hasDistributions |-> FALSE]

\* a payment that has its distributions and no date field
UndatedPayment(total, dists) ==
  [projectId |-> "", totalAmount |-> total, date |-> <<>>, hasDate |-> FALSE,
   distributions |-> dists, hasDistributions |-> TRUE]

UntypedFiles ==
  { [parses |-> TRUE,
     json |-> [INITIAL_STATE EXCEPT !.payments = << UntypedPayment(Lv(100)) >>]],
    [parses |-> TRUE,
     json |-> [INITIAL_STATE EXCEPT
       !.payments = << UndatedPayment(Lv(100), <<Dist("p1", Lv(100))>>) >>]],
    [parses |-> TRUE,
     json |-> [INITIAL_STATE EXCEPT
       !.payments = << newPayment("", Lv(100), Today, <<Dist("p1", Lv(100))>>),
                       UntypedPayment(Lv(50)) >>,
       !.expenses = << [amount |-> Lv(90), date |-> Today, hasDate |-> TRUE,
                        distributions |-> <<>>, hasDistributions |-> FALSE] >>]] }

\* App rendered: useMemo(() => calculateFinancials(state)) returned
rendered == ~engineThrows(state, PARTNERS)

ImportUntyped == \E file \in UntypedFiles : handleImport(file)

NextAnyFile ==
  \/ rendered /\ RecordProject
  \/ rendered /\ RecordPayment
  \/ rendered /\ RecordExpense
  \/ rendered /\ RecordDividend
  \/ rendered /\ DeleteProject
  \/ rendered /\ Reset
  \/ rendered /\ Import
  \/ rendered /\ ImportUntyped

SpecAnyFile == Init /\ [][NextAnyFile]_vars

(***************************************************************************)
(* Dated ledgers.  IncomeView and DividendsView have a date input, whose   *)
(* value is a day or, once cleared, the empty string; ExpensesView has     *)
(* none and records the day the view was opened.  ReportsView filters the  *)
(* three streams by the two dates of its range inputs.                     *)
(***************************************************************************)
EmptyDate == <<>>

\* the days the application is used on
Days == {toISODate(2023, 12, 31), toISODate(2024, 2, 1), Today}

\* the values of a date input
DateInputs == Days \cup {EmptyDate}

\* the values of the range inputs: firstDay and lastDay of the month, or picked
RangeInputs == DateInputs \cup {toISODate(2024, 2, 29)}

DatedPaymentInputs ==
  { [total |-> Lv(100), dists |-> <<Dist("p1", Lv(100))>>],
    [total |-> Lv(50), dists |-> <<Dist("p2", Lv(100))>>] }

\* a file with a dividend of somebody outside the roster
DatedFiles ==
  { [parses |-> TRUE,
     json |-> [INITIAL_STATE EXCEPT
       !.expenses = << newExpense(Lv(90), toISODate(2023, 12, 31), <<>>) >>,
       !.dividends = << [StampedDiv("px", Lv(40), Lv(2)) EXCEPT
                           !.date = toISODate(2024, 2, 1)] >>]] }

RecordDatedPayment ==
  \E in \in DatedPaymentInputs, date \in DateInputs :
    addPayment("", in.total, date, in.dists)

RecordDatedExpense == \E day \in Days : addExpense(Lv(90), day, <<>>)

RecordDatedDividend ==
  \E p \in {PARTNERS[1].id, PARTNERS[2].id}, date \in DateInputs :
    addDividend(p, Lv(40), date)

ImportDated == \E file \in DatedFiles : handleImport(file)

NextDated ==
  \/ RecordDatedPayment
  \/ RecordDatedExpense
  \/ RecordDatedDividend
  \/ ImportDated
  \/ Reset

SpecDated == Init /\ [][NextDated]_vars

\* mutant: the range excludes its first day
inRange_afterStart(entry, startDate, endDate) ==
  strLess(startDate, entry.date) /\ strLessEq(entry.date, endDate)

\* p.date >= startDate && p.date <= endDate
inRange(entry, startDate, endDate) ==
  strGreaterEq(entry.date, startDate) /\ strLessEq(entry.date, endDate)

\* ReportsView.periodData without byProject and byCategory
periodData(st, startDate, endDate) ==
  LET payments == SelectSeq(st.payments, LAMBDA p : inRange(p, startDate, endDate))
      expenses == SelectSeq(st.expenses, LAMBDA x : inRange(x, startDate, endDate))
      dividendTaxes == SelectSeq(st.dividends, LAMBDA d : inRange(d, startDate, endDate))
      revenue == sumTotalAmount(payments)
      expenseTotal == sumAmount(expenses)
      profitBeforeTax == revenue - expenseTotal
      tax == IF profitBeforeTax > 0 THEN TimesRate(profitBeforeTax, 10) ELSE 0
  IN [revenue |-> revenue,
      expenseTotal |-> expenseTotal,
      profitBeforeTax |-> profitBeforeTax,
      tax |-> tax,
      netProfit |-> profitBeforeTax - tax,
      dividendTax |-> sumTaxAmount(dividendTaxes)]

(***************************************************************************)
(* Backups.  handleExport puts encodeURIComponent(JSON.stringify(state))   *)
(* behind the "data:text/json;charset=utf-8," of a link and clicks it; the *)
(* browser writes the file with the percent escapes decoded.  handleImport *)
(* reads the chosen file as text and parses it.                            *)
(***************************************************************************)
\* the characters encodeURIComponent leaves alone, among those of a literal
unreserved(c) ==
  \/ c \in Digit(0) .. Digit(9)
  \/ c = Hyphen

\* the hexadecimal digit of n < 16, in upper case
hexDigit(n) == IF n < 10 THEN Digit(n) ELSE 55 + n

hexValue(c) == IF c <= Digit(9) THEN c - Digit(0) ELSE c - 55

RECURSIVE encodeURIComponent(_)
encodeURIComponent(text) ==
  IF Len(text) = 0 THEN <<>>
  ELSE (IF unreserved(Head(text))
        THEN <<Head(text)>>
        ELSE <<PercentSign, hexDigit(Head(text) \div 16), hexDigit(Head(text) % 16)>>)
         \o encodeURIComponent(Tail(text))

\* mutant: the file written with the escapes left in
RECURSIVE percentDecode_escapesKept(_)
percentDecode_escapesKept(text) ==
  IF Len(text) = 0 THEN <<>>
  ELSE <<Head(text)>> \o percentDecode_escapesKept(Tail(text))

\* what the browser makes of the data of a data: URL
RECURSIVE percentDecode(_)
percentDecode(text) ==
  IF Len(text) = 0 THEN <<>>
  ELSE IF Head(text) = PercentSign /\ Len(text) >= 3
       THEN <<hexValue(text[2]) * 16 + hexValue(text[3])>>
              \o percentDecode(SubSeq(text, 4, Len(text)))
       ELSE <<Head(text)>> \o percentDecode(Tail(text))

\* the text with the characters of every literal escaped (encodeURIComponent)
\* or with their escapes decoded (the download)
overLiterals(text, escaping) ==
  LET f(literal) == IF escaping THEN encodeURIComponent(literal)
                    ELSE percentDecode(literal)
      ofDistributions(ds) ==
        [j \in DOMAIN ds |-> [ds[j] EXCEPT !.amount = f(@)]]
  IN [text EXCEPT
        !.payments = [i \in DOMAIN @ |->
           [@[i] EXCEPT !.totalAmount = f(@), !.date = f(@),
                        !.distributions = ofDistributions(@)]],
        !.expenses = [i \in DOMAIN @ |->
           [@[i] EXCEPT !.amount = f(@), !.date = f(@),
                        !.distributions = ofDistributions(@)]],
        !.dividends = [i \in DOMAIN @ |->
           [@[i] EXCEPT !.grossAmount = f(@), !.taxAmount = f(@),
                        !.netReceived = f(@), !.date = f(@)]]]

\* the href of the download link
dataStr(st) ==
  [scheme |-> "data:text/json;charset=utf-8",
   data |-> overLiterals(JSONstringify(st), TRUE)]

\* the file the click on the link writes
downloaded(href) == overLiterals(href.data, FALSE)

handleExport ==
  /\ download' = [saved |-> TRUE, text |-> downloaded(dataStr(state))]
  /\ download' # download
  /\ UNCHANGED <<state, report, storage, startup>>

\* a file by its text, as handleImport takes it
fileOf(text) ==
  LET json == JSONparse(text)
  IN [parses |-> ~json.threw,
      json |-> IF json.threw THEN INITIAL_STATE ELSE json.value]

BackupPaymentInputs ==
  { [total |-> Lv(100), date |-> Today, dists |-> <<Dist("p1", Lv(100))>>],
    [total |-> Lv(50), date |-> EmptyDate, dists |-> <<>>] }

RecordBackupPayment ==
  \E in \in BackupPaymentInputs : addPayment("", in.total, in.date, in.dists)

RecordBackupExpense ==
  \E distType \in {"general", "plamen_svetlo"} :
    addExpense(Lv(90), Today, expenseDistributions(distType, PARTNERS[1].id, Lv(90)))

RecordBackupDividend == addDividend(PARTNERS[1].id, Lv(40), toISODate(2024, 2, 1))

Export == handleExport

\* the backup file chosen in the file input
ImportBackup == download.saved /\ handleImport(fileOf(download.text))

\* a file that is not JSON chosen in the file input
ImportOtherFile == handleImport(fileOf(NotJSON))

NextBackup ==
  \/ RecordBackupPayment
  \/ RecordBackupExpense
  \/ RecordBackupDividend
  \/ Export
  \/ ImportBackup
  \/ ImportOtherFile
  \/ ImportDated

SpecBackup == Init /\ [][NextBackup]_vars

(***************************************************************************)
(* Startup.  After the first render, with the state still INITIAL_STATE,   *)
(* the two effects run in the order they are declared: the first reads the *)
(* saved item and, when it parses, queues setState of the parsed value;    *)
(* the second writes the serialization of the state it rendered with, the  *)
(* empty ledger.  The queued value is the state of the next render, whose  *)
(* save effect writes it back.  No form is there to act before that.       *)
(***************************************************************************)
SavedLedgers ==
  { INITIAL_STATE,
    [INITIAL_STATE EXCEPT
       !.payments = << newPayment("", Lv(100), EmptyDate, <<Dist("p1", Lv(100))>>) >>],
    [INITIAL_STATE EXCEPT
       !.payments = << newPayment("t1", Lv(100), Today, <<Dist("p1", Lv(100))>>) >>,
       !.expenses = << newExpense(Lv(90), toISODate(2023, 12, 31), <<>>) >>,
       !.dividends = << newDiv(PARTNERS[1].id, Lv(40), Today) >>] }

\* what the browser holds under the key when the page loads
SavedItems ==
  {noItem, stored(NotJSON)} \cup {stored(JSONstringify(ledger)) : ledger \in SavedLedgers}

firstRender == [phase |-> "start", queued |-> FALSE, value |-> INITIAL_STATE]

InitPersist ==
  /\ state = INITIAL_STATE
  /\ report = INITIAL_REPORT
  /\ storage \in SavedItems
  /\ download = noDownload
  /\ startup = firstRender

\* the effects of the first render
mountEffects ==
  /\ startup.phase = "start"
  /\ LET saved == storage
         json == JSONparse(saved.text)
     IN startup' = IF saved.present /\ ~json.threw
                   THEN [phase |-> "mounted", queued |-> TRUE, value |-> json.value]
                   ELSE settled
  /\ storage' = stored(JSONstringify(state))
  /\ UNCHANGED <<state, report, download>>

\* the render the queued setState causes, and its save effect
loadedRender ==
  /\ startup.phase = "mounted"
  /\ state' = startup.value
  /\ saveEffect
  /\ startup' = settled
  /\ UNCHANGED <<report, download>>

started == startup.phase = "settled"

NextPersist ==
  \/ mountEffects
  \/ loadedRender
  \/ started /\ RecordDatedPayment
  \/ started /\ RecordDatedExpense
  \/ started /\ RecordDatedDividend
  \/ started /\ Reset

\* nothing stands between the first render and its effects, nor between
\* the queued setState and the render it causes
SpecPersist ==
  InitPersist /\ [][NextPersist]_vars /\ WF_vars(mountEffects) /\ WF_vars(loadedRender)

(***************************************************************************)
(* The model's arithmetic is exact: every division the engine and the      *)
(* recorder make leaves no remainder on the values reached.                *)
(***************************************************************************)
ExactArithmetic ==
  /\ \A i \in DOMAIN state.expenses :
       /\ state.expenses[i].amount % Len(PARTNERS) = 0
       /\ state.expenses[i].amount % 2 = 0
  /\ rendered =>
       /\ (financials.summary.taxableProfit * TAX_RATE_PERCENT) % 100 = 0
       /\ \A k \in DOMAIN PARTNERS :
            (financials.partnerStats[k].taxableBase * TAX_RATE_PERCENT) % 100 = 0
  /\ \A i \in DOMAIN state.dividends :
       (state.dividends[i].grossAmount * DIVIDEND_TAX_RATE_PERCENT) % 100 = 0
  /\ \A g \in GrossAmounts : (g * DIVIDEND_TAX_RATE_PERCENT) % 100 = 0

(***************************************************************************)
(* Vocabulary of the claims                                                *)
(***************************************************************************)

\* the sum of a function's values over its finite domain
RECURSIVE SumFn(_)
SumFn(f) ==
  IF DOMAIN f = {} THEN 0
  ELSE LET x == CHOOSE x \in DOMAIN f : TRUE
       IN f[x] + SumFn([y \in DOMAIN f \ {x} |-> f[y]])

RemoveAt(seq, i) == SubSeq(seq, 1, i - 1) \o SubSeq(seq, i + 1, Len(seq))

\* the positions of the distributions of a record that name a partner
Naming(ds, id) == {j \in DOMAIN ds : ds[j].partnerId = id}

\* the total a record's distributions give to a partner
NamedTotal(ds, id) == SumFn([j \in Naming(ds, id) |-> ds[j].amount])

DistTotal(ds) == SumFn([j \in DOMAIN ds |-> ds[j].amount])

Stat(st, k) == calculateFinancials(st).partnerStats[k]

\* distributions to put in the place of a record's own
AltDistributions ==
  { <<>>,
    <<Dist("p1", Lv(100))>>,
    <<Dist("p1", Lv(30)), Dist("p2", Lv(30))>>,
    <<Dist("p2", Lv(100)), Dist("p3", Lv(100))>>,
    <<Dist("p3", Lv(10)), Dist("p3", Lv(20))>> }

\* totals to put in the place of a record's own
AltAmounts == {0, Lv(30), Lv(300)}

WithPaymentDistributions(st, i, ds) == [st EXCEPT !.payments[i].distributions = ds]

WithExpenseDistributions(st, i, ds) ==
  [st EXCEPT !.expenses[i].distributions = ds, !.expenses[i].hasDistributions = TRUE]

WithoutExpenseDistributions(st, i) ==
  [st EXCEPT !.expenses[i].distributions = <<>>, !.expenses[i].hasDistributions = FALSE]

EqualSplit(e) == (~e.hasDistributions) \/ e.distributions = <<>>

(***************************************************************************)
(* C1.  The company totals are the sums of the parent records' totals      *)
(* (payment.totalAmount, expense.amount), and putting any other            *)
(* distributions in a payment or an expense, or none, changes neither.     *)
(***************************************************************************)
C1_TotalsFromParentRecords ==
  LET s == financials.summary
  IN /\ s.totalRevenue =
          SumFn([i \in DOMAIN state.payments |-> state.payments[i].totalAmount])
     /\ s.totalExpenses =
          SumFn([i \in DOMAIN state.expenses |-> state.expenses[i].amount])
     /\ \A i \in DOMAIN state.payments : \A ds \in AltDistributions :
          LET t == calculateFinancials(WithPaymentDistributions(state, i, ds)).summary
          IN t.totalRevenue = s.totalRevenue /\ t.totalExpenses = s.totalExpenses
     /\ \A i \in DOMAIN state.expenses :
          /\ \A ds \in AltDistributions :
               LET t == calculateFinancials(WithExpenseDistributions(state, i, ds)).summary
               IN t.totalRevenue = s.totalRevenue /\ t.totalExpenses = s.totalExpenses
          /\ LET t == calculateFinancials(WithoutExpenseDistributions(state, i)).summary
             IN t.totalRevenue = s.totalRevenue /\ t.totalExpenses = s.totalExpenses

\* an over-allocated payment, a payment with no distributions (all of it
\* unallocated) and an expense with no distributions in one ledger
C1_Witness ==
  /\ \E i \in DOMAIN state.payments :
       DistTotal(state.payments[i].distributions) > state.payments[i].totalAmount
  /\ \E i \in DOMAIN state.payments :
       /\ state.payments[i].distributions = <<>>
       /\ state.payments[i].totalAmount > 0
  /\ \E i \in DOMAIN state.expenses : state.expenses[i].distributions = <<>>
  /\ financials.summary.totalRevenue = Lv(150)
  /\ financials.summary.totalExpenses = Lv(90)

(***************************************************************************)
(* C2.  taxableProfit = max(0, totalRevenue - totalExpenses), corporateTax *)
(* = taxableProfit * 10 %, netProfit = totalRevenue - totalExpenses -      *)
(* corporateTax: the first two are never negative, and when expenses       *)
(* exceed revenue they are 0 while netProfit is the negative difference.   *)
(***************************************************************************)
C2_CompanyTaxClamp ==
  LET s == financials.summary
      d == s.totalRevenue - s.totalExpenses
  IN /\ s.taxableProfit >= 0
     /\ s.taxableProfit >= d
     /\ s.taxableProfit \in {0, d}
     /\ s.corporateTax * 100 = s.taxableProfit * TAX_RATE_PERCENT
     /\ s.corporateTax >= 0
     /\ s.netProfit = d - s.corporateTax
     /\ d < 0 => s.taxableProfit = 0 /\ s.corporateTax = 0 /\ s.netProfit = d /\ s.netProfit < 0

\* revenue 50 and expenses 90: 0, 0 and -40
C2_Witness ==
  /\ financials.summary.totalRevenue = Lv(50)
  /\ financials.summary.totalExpenses = Lv(90)
  /\ financials.summary.taxableProfit = 0
  /\ financials.summary.corporateTax = 0
  /\ financials.summary.netProfit = -Lv(40)

(***************************************************************************)
(* C3.  Per partner: taxableBase = revenue - expenseShare, unclamped;      *)
(* corporateTaxShare = taxableBase * 10 % when taxableBase > 0 and 0       *)
(* otherwise; netProfitShare = taxableBase - corporateTaxShare, which is   *)
(* the negative taxableBase itself when taxableBase is negative.           *)
(***************************************************************************)
C3_PartnerTaxNoClamp ==
  \A k \in DOMAIN PARTNERS :
    LET ps == financials.partnerStats[k]
    IN /\ ps.taxableBase = ps.revenue - ps.expenseShare
       /\ ps.taxableBase > 0 => ps.corporateTaxShare * 100 = ps.taxableBase * TAX_RATE_PERCENT
       /\ ps.taxableBase <= 0 => ps.corporateTaxShare = 0
       /\ ps.netProfitShare = ps.taxableBase - ps.corporateTaxShare
       /\ ps.taxableBase < 0 => ps.netProfitShare = ps.taxableBase

\* a partner in the red and a partner in the black while the company's
\* taxable profit is clamped to 0
C3_Witness ==
  /\ financials.summary.taxableProfit = 0
  /\ financials.summary.totalExpenses > financials.summary.totalRevenue
  /\ \E k \in DOMAIN PARTNERS :
       /\ financials.partnerStats[k].expenseShare > financials.partnerStats[k].revenue
       /\ financials.partnerStats[k].taxableBase < 0
       /\ financials.partnerStats[k].corporateTaxShare = 0
       /\ financials.partnerStats[k].netProfitShare < 0
  /\ \E k \in DOMAIN PARTNERS :
       /\ financials.partnerStats[k].taxableBase > 0
       /\ financials.partnerStats[k].corporateTaxShare > 0

(***************************************************************************)
(* C4.  An expense whose distributions are empty or absent adds exactly    *)
(* amount / roster.length to the expenseShare of every roster partner:     *)
(* taking that expense out of the ledger lowers each partner's             *)
(* expenseShare by a share that, times the roster's length, is the amount, *)
(* and the shares over the roster add up to the amount.                    *)
(***************************************************************************)
WithoutExpense(st, i) == [st EXCEPT !.expenses = RemoveAt(@, i)]

\* what expense i adds to the expenseShare of roster partner k
ExpenseAdds(i, k) ==
  financials.partnerStats[k].expenseShare - Stat(WithoutExpense(state, i), k).expenseShare

C4_EqualSplitFallback ==
  \A i \in DOMAIN state.expenses :
    EqualSplit(state.expenses[i]) =>
      /\ \A k \in DOMAIN PARTNERS :
           ExpenseAdds(i, k) * Len(PARTNERS) = state.expenses[i].amount
      /\ SumFn([k \in DOMAIN PARTNERS |-> ExpenseAdds(i, k)]) = state.expenses[i].amount

\* amount 90 and no distributions, next to an expense that has them: 30 each
C4_Witness ==
  /\ Len(state.expenses) >= 2
  /\ \E i \in DOMAIN state.expenses :
       /\ state.expenses[i].distributions = <<>>
       /\ state.expenses[i].amount = Lv(90)
       /\ \A k \in DOMAIN PARTNERS : ExpenseAdds(i, k) = Lv(30)
  /\ \E i \in DOMAIN state.expenses : state.expenses[i].distributions # <<>>

(***************************************************************************)
(* C5.  An expense with one or more distributions adds to each roster      *)
(* partner exactly the amounts of its distributions that name that partner *)
(* (nothing to a partner it does not name), and its own amount field plays *)
(* no part: with any other amount every partner's expenseShare is the same.*)
(***************************************************************************)
WithExpenseAmount(st, i, a) == [st EXCEPT !.expenses[i].amount = a]

C5_ExplicitDistributionOnly ==
  \A i \in DOMAIN state.expenses :
    ~EqualSplit(state.expenses[i]) =>
      \A k \in DOMAIN PARTNERS :
        /\ ExpenseAdds(i, k) = NamedTotal(state.expenses[i].distributions, PARTNERS[k].id)
        /\ Naming(state.expenses[i].distributions, PARTNERS[k].id) = {}
             => ExpenseAdds(i, k) = 0
        /\ \A a \in AltAmounts :
             Stat(WithExpenseAmount(state, i, a), k).expenseShare
               = financials.partnerStats[k].expenseShare

\* amount 90 with distributions [{p1, 90}]: p1 up by 90, p2 and p3 by nothing
C5_Witness ==
  \E i \in DOMAIN state.expenses :
    /\ state.expenses[i].amount = Lv(90)
    /\ state.expenses[i].distributions = <<Dist("p1", Lv(90))>>
    /\ ExpenseAdds(i, 1) = Lv(90)
    /\ ExpenseAdds(i, 2) = 0
    /\ ExpenseAdds(i, 3) = 0
    /\ Len(state.expenses) >= 2

(***************************************************************************)
(* C6.  A partner's revenue is made of one contribution per payment: 0     *)
(* from a payment with no distribution naming the partner, the amount of   *)
(* the distribution naming the partner otherwise (of one of them, should   *)
(* several name the partner).  The payment's totalAmount plays no part, so *)
(* what a payment leaves unattributed reaches no partner.                  *)
(***************************************************************************)
WithoutPayment(st, i) == [st EXCEPT !.payments = RemoveAt(@, i)]

WithPaymentTotal(st, i, a) == [st EXCEPT !.payments[i].totalAmount = a]

\* what payment i adds to the revenue of roster partner k
PaymentAdds(i, k) ==
  financials.partnerStats[k].revenue - Stat(WithoutPayment(state, i), k).revenue

C6_RevenueByMatchingDistribution ==
  /\ state.payments = <<>> =>
       \A k \in DOMAIN PARTNERS : financials.partnerStats[k].revenue = 0
  /\ \A i \in DOMAIN state.payments : \A k \in DOMAIN PARTNERS :
       LET ds == state.payments[i].distributions
           named == Naming(ds, PARTNERS[k].id)
           adds == PaymentAdds(i, k)
           revenue == financials.partnerStats[k].revenue
       IN /\ named = {} => adds = 0
          /\ named # {} => \E j \in named : adds = ds[j].amount
          /\ Cardinality(named) = 1 => adds = NamedTotal(ds, PARTNERS[k].id)
          /\ \A a \in AltAmounts :
               Stat(WithPaymentTotal(state, i, a), k).revenue = revenue

\* a payment of 100 with [{p3, 50}] beside another payment: 50 to p3, 0 to
\* p1 and p2, and the partners' revenue falls short of the company's
C6_Witness ==
  /\ Len(state.payments) >= 2
  /\ \E i \in DOMAIN state.payments :
       /\ state.payments[i].totalAmount = Lv(100)
       /\ state.payments[i].distributions = <<Dist("p3", Lv(50))>>
       /\ PaymentAdds(i, 3) = Lv(50)
       /\ PaymentAdds(i, 1) = 0
       /\ PaymentAdds(i, 2) = 0
  /\ SumFn([k \in DOMAIN PARTNERS |-> financials.partnerStats[k].revenue])
       < financials.summary.totalRevenue

(***************************************************************************)
(* C7.  Several distributions of one record naming the same partner are    *)
(* resolved by one fixed rule, last-seen-wins or sum-wins, the same for    *)
(* payments and for expenses: the record adds to the partner either the    *)
(* amount of the last such entry or the sum of all of them.                *)
(***************************************************************************)
DuplicateRules == {"last-seen-wins", "sum-wins"}

LastNamed(ds, id) ==
  ds[CHOOSE j \in Naming(ds, id) : \A l \in Naming(ds, id) : l <= j].amount

RuleValue(rule, ds, id) ==
  IF rule = "last-seen-wins" THEN LastNamed(ds, id) ELSE NamedTotal(ds, id)

C7_OneFixedDuplicateRule ==
  \E rule \in DuplicateRules :
    /\ \A i \in DOMAIN state.payments : \A k \in DOMAIN PARTNERS :
         LET ds == state.payments[i].distributions
         IN Cardinality(Naming(ds, PARTNERS[k].id)) >= 2
              => PaymentAdds(i, k) = RuleValue(rule, ds, PARTNERS[k].id)
    /\ \A i \in DOMAIN state.expenses : \A k \in DOMAIN PARTNERS :
         LET ds == state.expenses[i].distributions
         IN Cardinality(Naming(ds, PARTNERS[k].id)) >= 2
              => ExpenseAdds(i, k) = RuleValue(rule, ds, PARTNERS[k].id)

(***************************************************************************)
(* C8.  balance = netProfitShare - dividendsTakenGross, the latter being   *)
(* the total gross of the partner's recorded dividends, with no clamp: it  *)
(* is negative when the partner drew more than the share.  addDividend     *)
(* takes any gross amount for any partner whatever the balance (as long as *)
(* the model's ledger has room).                                           *)
(***************************************************************************)
GrossOf(st, id) ==
  SumFn([i \in {j \in DOMAIN st.dividends : st.dividends[j].partnerId = id}
           |-> st.dividends[i].grossAmount])

C8_BalanceDrawDown ==
  /\ \A k \in DOMAIN PARTNERS :
       LET ps == financials.partnerStats[k]
       IN /\ ps.balance = ps.netProfitShare - ps.dividendsTakenGross
          /\ ps.balance = ps.netProfitShare - GrossOf(state, PARTNERS[k].id)
  /\ entries(state) < MaxEntries =>
       \A id \in RosterIds : \A g \in GrossAmounts : ENABLED addDividend(id, g, Today)

\* a share of 90, a dividend of 100 drawn against it and a second dividend
\* recorded with the balance already negative
C8_Witness ==
  \E k \in DOMAIN PARTNERS :
    /\ financials.partnerStats[k].netProfitShare = Lv(90)
    /\ Len(state.dividends) = 2
    /\ \A i \in DOMAIN state.dividends : state.dividends[i].partnerId = PARTNERS[k].id
    /\ state.dividends[1].grossAmount = Lv(100)
    /\ financials.partnerStats[k].balance = Lv(90) - Lv(100) - state.dividends[2].grossAmount
    /\ financials.partnerStats[k].balance < -Lv(10)

(***************************************************************************)
(* C9.  dividendsTakenGross is the sum of grossAmount, and dividendTaxPaid *)
(* the sum of the stored taxAmount, over the dividend records of the       *)
(* partner.  The stored stamp is what counts: with any other stamp on a    *)
(* record, the partner's dividendTaxPaid moves by the difference of the    *)
(* stamps and nobody else's moves.                                         *)
(***************************************************************************)
StampedTaxOf(st, id) ==
  SumFn([i \in {j \in DOMAIN st.dividends : st.dividends[j].partnerId = id}
           |-> st.dividends[i].taxAmount])

AltStamps == {0, Lv(1), Lv(7)}

WithStamp(st, i, t) == [st EXCEPT !.dividends[i].taxAmount = t]

C9_DividendSumsFromStoredStamps ==
  \A k \in DOMAIN PARTNERS :
    LET ps == financials.partnerStats[k]
        id == PARTNERS[k].id
    IN /\ ps.dividendsTakenGross = GrossOf(state, id)
       /\ ps.dividendTaxPaid = StampedTaxOf(state, id)
       /\ \A i \in DOMAIN state.dividends : \A t \in AltStamps :
            Stat(WithStamp(state, i, t), k).dividendTaxPaid - ps.dividendTaxPaid
              = IF state.dividends[i].partnerId = id
                THEN t - state.dividends[i].taxAmount
                ELSE 0

\* a dividend stamped at 10 % beside one recorded at today's 5 %: the tax
\* paid is the sum of the stamps, not 5 % of the gross total
C9_Witness ==
  \E k \in DOMAIN PARTNERS :
    /\ \E i \in DOMAIN state.dividends :
         /\ state.dividends[i].partnerId = PARTNERS[k].id
         /\ state.dividends[i].taxAmount * 100
              # state.dividends[i].grossAmount * DIVIDEND_TAX_RATE_PERCENT
    /\ \E i \in DOMAIN state.dividends :
         /\ state.dividends[i].partnerId = PARTNERS[k].id
         /\ state.dividends[i] = newDiv(PARTNERS[k].id, Lv(100), Today)
    /\ financials.partnerStats[k].dividendsTakenGross = Lv(200)
    /\ financials.partnerStats[k].dividendTaxPaid = Lv(15)

EmptyRoster == SubSeq(PARTNERS, 1, 0)

\* a ledger whose expenses reach the division by PARTNERS.length
DividesByRosterLength(st) == \E i \in DOMAIN st.expenses : noDistributions(st.expenses[i])

C11_EmptyRosterRaises ==
  DividesByRosterLength(state) =>
    LET r == calculateFinancialsOf(state, EmptyRoster)
    IN r.threw /\ r.error = "ConfigurationError"

\* what the call does instead: a normal result without statements
C11_EmptyRosterReturns ==
  LET r == calculateFinancialsOf(state, EmptyRoster)
  IN /\ ~r.threw
     /\ r.summary = summaryOf(state)
     /\ r.partnerStats = EmptyRoster

(***************************************************************************)
(* C12  Claim: the engine raises no exception for a data-shape issue; a    *)
(* payment or an expense whose distributions field is absent or empty is   *)
(* processed without failing, the expense split equally over the roster    *)
(* and the payment adding 0 to every partner's revenue.  The expense loop  *)
(* tests !exp.distributions first; the payment loop calls                  *)
(* p.distributions.find with no test.                                      *)
(***************************************************************************)
ShapeIssue(st) ==
  \/ \E i \in DOMAIN st.payments :
       (~st.payments[i].hasDistributions) \/ Len(st.payments[i].distributions) = 0
  \/ \E i \in DOMAIN st.expenses : noDistributions(st.expenses[i])

C12_NoShapeException ==
  ShapeIssue(state) =>
    /\ ~financials.threw
    /\ \A i \in DOMAIN state.payments :
         Len(state.payments[i].distributions) = 0 =>
           \A k \in DOMAIN PARTNERS : paymentShare(state.payments[i], PARTNERS[k].id) = 0
    /\ \A i \in DOMAIN state.expenses :
         noDistributions(state.expenses[i]) =>
           \A k \in DOMAIN PARTNERS :
             expenseStep(emptyExpenseMap(PARTNERS), state.expenses[i], PARTNERS)[PARTNERS[k].id]
               * Len(PARTNERS) = state.expenses[i].amount

\* the part of the claim the code keeps: no exception while every payment
\* has its distributions field, empty or not, and every payment and expense
\* its date
C12_TypedLedgersNeverThrow ==
  (/\ \A i \in DOMAIN state.payments :
        state.payments[i].hasDistributions /\ state.payments[i].hasDate
   /\ \A i \in DOMAIN state.expenses : state.expenses[i].hasDate)
    => ~financials.threw

(***************************************************************************)
(* C13  Claim: a distribution naming a partnerId that is not in the roster *)
(* changes no roster partner's revenue or expenseShare and adds no partner *)
(* statement, while the parent payment's totalAmount or expense's amount   *)
(* is counted in full in the company totals; the engine does not throw and *)
(* yields no undefined value for it.  The effect of the distribution is    *)
(* measured by putting other amounts in its place.                         *)
(***************************************************************************)
Unknown(ds) == {j \in DOMAIN ds : ds[j].partnerId \notin RosterIds}

WithPaymentDistAmount(st, i, j, a) == [st EXCEPT !.payments[i].distributions[j].amount = a]

WithExpenseDistAmount(st, i, j, a) == [st EXCEPT !.expenses[i].distributions[j].amount = a]

StatementFields ==
  {"revenue", "expenseShare", "taxableBase", "corporateTaxShare", "netProfitShare",
   "dividendsTakenGross", "dividendTaxPaid", "balance"}

C13_UnknownPartnerDropped ==
  /\ \A i \in DOMAIN state.payments :
       \A j \in Unknown(state.payments[i].distributions) :
         /\ ~financials.threw
         /\ DOMAIN financials.partnerStats = DOMAIN PARTNERS
         /\ \A k \in DOMAIN PARTNERS :
              /\ financials.partnerStats[k].partnerId = PARTNERS[k].id
              /\ \A f \in StatementFields : financials.partnerStats[k][f] \in Int
         /\ \A a \in AltAmounts :
              calculateFinancials(WithPaymentDistAmount(state, i, j, a)) = financials
         /\ financials.summary.totalRevenue
              - calculateFinancials(WithoutPayment(state, i)).summary.totalRevenue
              = state.payments[i].totalAmount
  /\ \A i \in DOMAIN state.expenses :
       \A j \in Unknown(state.expenses[i].distributions) :
         /\ ~financials.threw
         /\ DOMAIN financials.partnerStats = DOMAIN PARTNERS
         /\ \A k \in DOMAIN PARTNERS :
              /\ financials.partnerStats[k].partnerId = PARTNERS[k].id
              /\ \A f \in StatementFields : financials.partnerStats[k][f] \in Int
         /\ \A a \in AltAmounts :
              calculateFinancials(WithExpenseDistAmount(state, i, j, a)) = financials
         /\ financials.summary.totalExpenses
              - calculateFinancials(WithoutExpense(state, i)).summary.totalExpenses
              = state.expenses[i].amount

\* a payment and an expense that each name a stranger with a positive amount
C13_Witness ==
  /\ \E i \in DOMAIN state.payments :
       \E j \in Unknown(state.payments[i].distributions) :
         state.payments[i].distributions[j].amount > 0
  /\ \E i \in DOMAIN state.expenses :
       \E j \in Unknown(state.expenses[i].distributions) :
         /\ state.expenses[i].distributions[j].amount > 0
         /\ \A k \in DOMAIN PARTNERS : ExpenseAdds(i, k) = 0
  /\ financials.summary.totalRevenue = Lv(100)
  /\ financials.summary.totalExpenses = Lv(90)

(***************************************************************************)
(* C14  Claim: for the empty ledger (no payments, expenses or dividends)   *)
(* every field of the summary is 0 and every numeric field of every        *)
(* partner statement is 0, with no division-by-zero error.  Projects do    *)
(* not count: the ledger may list some.                                    *)
(***************************************************************************)
EmptyLedger(st) == st.payments = <<>> /\ st.expenses = <<>> /\ st.dividends = <<>>

SummaryFields ==
  {"totalRevenue", "totalExpenses", "taxableProfit", "corporateTax", "netProfit"}

C14_EmptyLedgerAllZero ==
  EmptyLedger(state) =>
    /\ ~financials.threw
    /\ DOMAIN financials.summary = SummaryFields
    /\ \A f \in SummaryFields : financials.summary[f] = 0
    /\ DOMAIN financials.partnerStats = DOMAIN PARTNERS
    /\ \A k \in DOMAIN PARTNERS :
         \A f \in StatementFields : financials.partnerStats[k][f] = 0

\* the empty ledger that lists a project
C14_Witness ==
  /\ EmptyLedger(state)
  /\ Len(state.projects) > 0
  /\ financials.summary.netProfit = 0

(***************************************************************************)
(* C17  Claim: the engine returns exactly one partner statement per roster *)
(* partner, in roster order, each carrying that partner's id and name, for *)
(* every ledger, including ledgers in which a partner appears in no        *)
(* payment, expense or dividend.                                           *)
(***************************************************************************)
C17_OneStatementPerPartner ==
  /\ ~financials.threw
  /\ Len(financials.partnerStats) = Len(PARTNERS)
  /\ \A k \in DOMAIN PARTNERS :
       /\ financials.partnerStats[k].partnerId = PARTNERS[k].id
       /\ financials.partnerStats[k].name = PARTNERS[k].name

\* the partner is named by a distribution or a dividend of the ledger
Appears(st, id) ==
  \/ \E i \in DOMAIN st.payments : Naming(st.payments[i].distributions, id) # {}
  \/ \E i \in DOMAIN st.expenses : Naming(st.expenses[i].distributions, id) # {}
  \/ \E i \in DOMAIN st.dividends : st.dividends[i].partnerId = id

\* a ledger with records of all three kinds none of which names the last
\* partner, whose statement is there all the same
C17_Witness ==
  /\ Len(state.payments) > 0 /\ Len(state.expenses) > 0 /\ Len(state.dividends) > 0
  /\ ~Appears(state, PARTNERS[3].id)
  /\ Appears(state, PARTNERS[1].id)
  /\ financials.partnerStats[3].partnerId = PARTNERS[3].id
  /\ financials.partnerStats[3].revenue = 0

(***************************************************************************)
(* C18  Claim: a recorded payment is immutable; in every sequence of host  *)
(* operations (record project, payment, expense or dividend, delete        *)
(* project, import, reset) a payment that is in the ledger before an       *)
(* operation other than the full ledger reset is still in the ledger,      *)
(* unchanged, after that operation.                                        *)
(***************************************************************************)
\* every payment of the ledger is in its place, unchanged, after the step
PaymentsKept ==
  \A i \in DOMAIN state.payments :
    /\ i \in DOMAIN state'.payments
    /\ state'.payments[i] = state.payments[i]

\* as claimed: only the reset may take a payment away
C18_OnlyResetDropsPayments == [][resetData \/ PaymentsKept]_vars

\* a file that parses becomes the ledger
LoadsFile == \E file \in ImportFiles : file.parses /\ state' = file.json

\* C18 as the code has it: a payment stays, unchanged, through every
\* operation other than the full reset and the loading of a backup file,
\* which puts the file's ledger in the place of the whole ledger
C18_PaymentsKeptButResetAndImport == [][resetData \/ LoadsFile \/ PaymentsKept]_vars

\* two payments, the older one recorded for a project deleted since
C18_Witness ==
  /\ Len(state.payments) = 2
  /\ state.payments[1].projectId # ""
  /\ state.payments[1].projectId \notin ProjectChoices(state)
  /\ state.payments[2].projectId = ""

(***************************************************************************)
(* C19  Claim: the computed financials do not depend on project data; two  *)
(* ledgers that differ only in their projects give the same summary and    *)
(* the same partner statements, so adding or deleting a project leaves     *)
(* every computed figure unchanged, also for payments whose projectId      *)
(* names a project that no longer exists.                                  *)
(***************************************************************************)
\* project lists to put in the place of the ledger's own: none, one that no
\* payment names, the list with one project deleted, the list with one
\* added, the projects the payments name
AltProjects(st) ==
  { <<>>,
    << newProject("t9", "Most", "construction") >>,
    Append(st.projects, newProject("t9", "Most", "construction")),
    << newProject("t1", "Sklad", "construction"), newProject("t9", "Most", "construction") >> }
    \cup { RemoveAt(st.projects, i) : i \in DOMAIN st.projects }

WithProjects(st, projects) == [st EXCEPT !.projects = projects]

C19_ProjectsIrrelevant ==
  \A projects \in AltProjects(state) :
    LET other == calculateFinancials(WithProjects(state, projects))
    IN /\ other.summary = financials.summary
       /\ other.partnerStats = financials.partnerStats

\* a payment still counted after its project was deleted, beside a payment
\* recorded when no project was listed
C19_Witness ==
  /\ \E i \in DOMAIN state.payments : state.payments[i].projectId = ""
  /\ \E i \in DOMAIN state.payments :
       /\ state.payments[i].projectId # ""
       /\ state.payments[i].projectId \notin ProjectChoices(state)
       /\ state.payments[i].totalAmount > 0
  /\ financials.summary.totalRevenue = sumTotalAmount(state.payments)
  /\ financials.summary.totalRevenue > 0

(***************************************************************************)
(* C20  Claim: generateReport always completes with a string, whatever the *)
(* external call does: the generated text when the call returns text, a    *)
(* fixed fallback string when it returns empty text, and a fixed error     *)
(* string when the call fails; it never rejects or throws to its caller.   *)
(***************************************************************************)
C20_ReportAlwaysString ==
  /\ report.promise # "rejected"
  /\ report.promise = "fulfilled" => report.value # ""

\* what holds of the calls that reach the request: the text, the fallback
\* or the error string, shown by ReportsView with loading back to false
C20_SettledRequestGivesString ==
  report.promise = "fulfilled" =>
    /\ report.value \in {ReportFallback, ReportError}
                          \cup {o.text : o \in {r \in ResponseOutcomes : r.text # ""}}
    /\ report.aiReport = report.value
    /\ ~report.loading

\* the rejected call leaves loading true, and with it the button hidden
C20_RejectedCallHangs ==
  report.promise = "rejected" => report.loading /\ ~ENABLED GenerateReport

(***************************************************************************)
(* C21  Claim: conservation under well-formed input.  If the distributions *)
(* of every payment and of every explicitly distributed expense name only  *)
(* roster partners, at most once each, and sum to the parent's total, then *)
(* the partners' revenue sums to summary.totalRevenue, their expenseShare  *)
(* to summary.totalExpenses (equal-split expenses included) and their      *)
(* taxableBase to totalRevenue - totalExpenses.                            *)
(***************************************************************************)
\* distributions that name roster partners only, once each, and add up
Allocates(ds, total) ==
  /\ \A j \in DOMAIN ds : ds[j].partnerId \in RosterIds
  /\ \A j, l \in DOMAIN ds : ds[j].partnerId = ds[l].partnerId => j = l
  /\ DistTotal(ds) = total

WellFormed(st) ==
  /\ \A i \in DOMAIN st.payments :
       /\ st.payments[i].hasDistributions
       /\ Allocates(st.payments[i].distributions, st.payments[i].totalAmount)
  /\ \A i \in DOMAIN st.expenses :
       ~EqualSplit(st.expenses[i]) =>
         Allocates(st.expenses[i].distributions, st.expenses[i].amount)

SumOverPartners(stats, field) == SumFn([k \in DOMAIN stats |-> stats[k][field]])

C21_Conservation ==
  WellFormed(state) =>
    LET fin == financials
        stats == fin.partnerStats
    IN /\ SumOverPartners(stats, "revenue") = fin.summary.totalRevenue
       /\ SumOverPartners(stats, "expenseShare") = fin.summary.totalExpenses
       /\ SumOverPartners(stats, "taxableBase")
            = fin.summary.totalRevenue - fin.summary.totalExpenses

\* a payment split between two partners, an expense split equally and an
\* expense with its own distributions, all adding up
C21_Witness ==
  /\ WellFormed(state)
  /\ \E i \in DOMAIN state.payments : Len(state.payments[i].distributions) = 2
  /\ \E i \in DOMAIN state.expenses : EqualSplit(state.expenses[i])
  /\ \E i \in DOMAIN state.expenses : Len(state.expenses[i].distributions) = 2
  /\ financials.summary.totalRevenue = Lv(100)
  /\ financials.summary.totalExpenses = Lv(180)
  /\ SumOverPartners(financials.partnerStats, "taxableBase") = Lv(100) - Lv(180)

(***************************************************************************)
(* C22  Claim: each record operation (addProject with a non-empty name,    *)
(* addPayment, addExpense, addDividend) appends exactly one new entry at   *)
(* the end of its own stream, keeps every existing entry of that stream    *)
(* unchanged and in the same order, and leaves the other three streams     *)
(* unchanged.                                                              *)
(***************************************************************************)
Streams == {"projects", "payments", "expenses", "dividends"}

\* the step puts one entry after the entries of the stream and touches
\* nothing else
AppendsOneTo(stream) ==
  /\ Len(state'[stream]) = Len(state[stream]) + 1
  /\ SubSeq(state'[stream], 1, Len(state[stream])) = state[stream]
  /\ \A other \in Streams \ {stream} : state'[other] = state[other]

C22_RecordOperationsAppend ==
  [][ /\ RecordProject => AppendsOneTo("projects")
      /\ RecordPayment => AppendsOneTo("payments")
      /\ RecordExpense => AppendsOneTo("expenses")
      /\ RecordDividend => AppendsOneTo("dividends") ]_vars

\* two different expenses in the order of their recording, beside a payment
C22_Witness ==
  /\ Len(state.expenses) = 2
  /\ state.expenses[1] = newExpense(Lv(90), Today, <<>>)
  /\ state.expenses[2] = newExpense(Lv(90), Today, <<Dist("p3", Lv(90))>>)
  /\ Len(state.payments) = 1

(***************************************************************************)
(* C23  Claim: a confirmed reset sets the ledger to the initial state with *)
(* all four streams empty, from any reachable ledger, after which every    *)
(* summary field and every partner figure is 0; a reset that the user      *)
(* declines leaves the ledger unchanged.                                   *)
(***************************************************************************)
AllZero(fin) ==
  /\ ~fin.threw
  /\ \A f \in SummaryFields : fin.summary[f] = 0
  /\ \A k \in DOMAIN fin.partnerStats :
       \A f \in StatementFields : fin.partnerStats[k][f] = 0

\* what a reset step leaves: the four empty streams and figures of 0
ResetDone ==
  /\ state' = INITIAL_STATE
  /\ \A stream \in Streams : state'[stream] = <<>>
  /\ AllZero(calculateFinancials(state'))

C23_Reset ==
  /\ [](state # INITIAL_STATE => ENABLED handleReset(TRUE))
  /\ [][ /\ handleReset(TRUE) => ResetDone
         /\ handleReset(FALSE) => state' = state ]_vars

\* the empty ledger after a reset: the report made while the ledger held a
\* payment is still on the page
C23_Witness ==
  /\ state = INITIAL_STATE
  /\ report.promise = "fulfilled"
  /\ AllZero(financials)

(***************************************************************************)
(* C24  Claim: recording a dividend for partner p changes only p's         *)
(* dividendsTakenGross, dividendTaxPaid and balance: the company summary,  *)
(* p's revenue, expenseShare, taxableBase, corporateTaxShare and           *)
(* netProfitShare, and every field of every other partner's statement are  *)
(* the same before and after.                                              *)
(***************************************************************************)
DividendFields == {"dividendsTakenGross", "dividendTaxPaid", "balance"}

\* the figures after the step against the figures before it
OnlyDividendFieldsOf(id) ==
  LET before == calculateFinancials(state)
      after == calculateFinancials(state')
  IN /\ after.summary = before.summary
     /\ DOMAIN after.partnerStats = DOMAIN before.partnerStats
     /\ \A k \in DOMAIN PARTNERS :
          IF PARTNERS[k].id = id
          THEN \A f \in StatementFields \ DividendFields :
                 after.partnerStats[k][f] = before.partnerStats[k][f]
          ELSE after.partnerStats[k] = before.partnerStats[k]

C24_DividendFrame ==
  [][ \A id \in RosterIds : \A g \in GrossAmounts :
        addDividend(id, g, Today) => OnlyDividendFieldsOf(id) ]_vars

\* a dividend of the second partner in a ledger where the first partner has
\* revenue and a dividend of their own
C24_Witness ==
  /\ Len(state.dividends) = 2
  /\ state.dividends[1].partnerId = PARTNERS[1].id
  /\ state.dividends[2] = newDiv(PARTNERS[2].id, Lv(40), Today)
  /\ financials.partnerStats[1].revenue > 0
  /\ financials.partnerStats[1].dividendsTakenGross = state.dividends[1].grossAmount
  /\ financials.partnerStats[2].balance
       = financials.partnerStats[2].netProfitShare - Lv(40)

(***************************************************************************)
(* C25  Claim: tax reconciliation.  For a well-formed ledger               *)
(* (distributions name only roster partners, at most once each, and sum to *)
(* their parent's total) the sum of the partners' corporateTaxShare is     *)
(* never less than summary.corporateTax, and the two are equal whenever no *)
(* partner has a negative taxableBase.                                     *)
(***************************************************************************)
C25_TaxReconciliation ==
  WellFormed(state) =>
    LET fin == financials
        stats == fin.partnerStats
        shares == SumOverPartners(stats, "corporateTaxShare")
    IN /\ shares >= fin.summary.corporateTax
       /\ (\A k \in DOMAIN stats : stats[k].taxableBase >= 0)
            => shares = fin.summary.corporateTax

\* the partners are taxed on more than the company: one partner's loss
\* lowers the company's profit and nobody's share; and the company still
\* pays some tax
C25_Witness ==
  /\ WellFormed(state)
  /\ \E k \in DOMAIN PARTNERS : financials.partnerStats[k].taxableBase < 0
  /\ financials.summary.corporateTax > 0
  /\ SumOverPartners(financials.partnerStats, "corporateTaxShare")
       > financials.summary.corporateTax

\* the other case: every base at least 0, some positive, and equal taxes
C25_EqualCase ==
  /\ WellFormed(state)
  /\ \A k \in DOMAIN PARTNERS : financials.partnerStats[k].taxableBase >= 0
  /\ financials.summary.corporateTax > 0
  /\ Len(state.expenses) > 0

(***************************************************************************)
(* C26.  The two versions of calculateFinancials.                          *)
(***************************************************************************)
\* both calls throw, or both return and with the same summary and statements
SameFinancials(earlier, later) ==
  /\ earlier.threw = later.threw
  /\ ~earlier.threw =>
       /\ earlier.summary = later.summary
       /\ earlier.partnerStats = later.partnerStats

\* every payment and every expense of the ledger has its date field
Dated(st) ==
  /\ \A i \in DOMAIN st.payments : st.payments[i].hasDate
  /\ \A i \in DOMAIN st.expenses : st.expenses[i].hasDate

\* C26: for every ledger the calculateFinancials of the earlier App and the
\* one of the later App return the same summary and the same partnerStats.
C26_VersionsAgree ==
  SameFinancials(calculateFinancials_part000(state), calculateFinancials(state))

\* what does hold: the two agree on the ledgers whose payments and expenses
\* are dated (the later version reads p.date and e.date, the earlier does not)
C26_DatedLedgersAgree ==
  Dated(state) =>
    SameFinancials(calculateFinancials_part000(state), calculateFinancials(state))

C26_DatedCase ==
  /\ Dated(state)
  /\ Len(state.payments) > 0
  /\ Len(state.expenses) > 0
  /\ ~financials.threw
  /\ Len(financials.monthlyData) > 0

(***************************************************************************)
(* C27.  The period report and the engine.                                 *)
(***************************************************************************)
\* the date is a day of the range, its first and last day included
Within(date, startDate, endDate) ==
  strLessEq(startDate, date) /\ strLessEq(date, endDate)

\* the range holds the date of every payment, expense and dividend
RangeHoldsAll(st, startDate, endDate) ==
  /\ \A i \in DOMAIN st.payments : Within(st.payments[i].date, startDate, endDate)
  /\ \A i \in DOMAIN st.expenses : Within(st.expenses[i].date, startDate, endDate)
  /\ \A i \in DOMAIN st.dividends : Within(st.dividends[i].date, startDate, endDate)

\* the dividends of nobody in the roster
NonRosterDividends(st) == SelectSeq(st.dividends, LAMBDA d : d.partnerId \notin RosterIds)

ReportAgrees(fin, st, startDate, endDate) ==
  LET period == periodData(st, startDate, endDate)
  IN /\ period.revenue = fin.summary.totalRevenue
     /\ period.expenseTotal = fin.summary.totalExpenses
     /\ period.tax = fin.summary.corporateTax
     /\ period.netProfit = fin.summary.netProfit
     /\ period.dividendTax =
          SumOverPartners(fin.partnerStats, "dividendTaxPaid")
            + sumTaxAmount(NonRosterDividends(st))

\* C27: when the range [startDate, endDate] holds the date of every payment,
\* expense and dividend, the period report's revenue, expenseTotal, tax and
\* netProfit are the summary's totalRevenue, totalExpenses, corporateTax and
\* netProfit, and its dividendTax is the partners' dividendTaxPaid plus the
\* stored tax of the dividends of non-roster partners.
C27_PeriodReportAgrees ==
  LET fin == financials
  IN \A startDate \in RangeInputs, endDate \in RangeInputs :
       RangeHoldsAll(state, startDate, endDate) =>
         ReportAgrees(fin, state, startDate, endDate)

C27_Witness ==
  /\ Len(state.payments) > 0
  /\ Len(state.expenses) > 0
  /\ Len(NonRosterDividends(state)) > 0
  /\ state.payments[1].date # state.expenses[1].date
  /\ \E startDate \in RangeInputs, endDate \in RangeInputs :
       /\ RangeHoldsAll(state, startDate, endDate)
       /\ state.expenses[1].date = startDate
       /\ state.payments[1].date = endDate
       /\ periodData(state, startDate, endDate).tax > 0
       /\ periodData(state, startDate, endDate).dividendTax > 0

\* the same with dividends of roster partners on the first and the last day
C27_RosterDividends ==
  /\ Len(state.dividends) = 2
  /\ \A i \in DOMAIN state.dividends : state.dividends[i].partnerId \in RosterIds
  /\ strLess(state.dividends[1].date, state.dividends[2].date)
  /\ Len(state.payments) = 1
  /\ RangeHoldsAll(state, state.dividends[1].date, state.dividends[2].date)
  /\ periodData(state, state.dividends[1].date, state.dividends[2].date).dividendTax
       = Lv(4)

(***************************************************************************)
(* C28.  Monthly aggregation.                                              *)
(***************************************************************************)
\* the first seven characters of a date: YYYY-MM
YearMonth(date) == SubSeq(date, 1, IF Len(date) < 7 THEN Len(date) ELSE 7)

YearMonths(st) ==
  {YearMonth(st.payments[i].date) : i \in DOMAIN st.payments}
    \cup {YearMonth(st.expenses[i].date) : i \in DOMAIN st.expenses}

\* C28: monthlyData has exactly one entry per distinct YYYY-MM prefix among
\* the payment and expense dates, in ascending order of month; its income
\* fields sum to summary.totalRevenue and its expense fields to
\* summary.totalExpenses.
C28_MonthlyConservation ==
  LET fin == financials
      monthly == fin.monthlyData
  IN /\ {monthly[i].name : i \in DOMAIN monthly} = YearMonths(state)
     /\ Len(monthly) = Cardinality(YearMonths(state))
     /\ \A i \in DOMAIN monthly : \A j \in DOMAIN monthly :
          i < j => strLess(monthly[i].name, monthly[j].name)
     /\ reduceSum([i \in DOMAIN monthly |-> monthly[i].income])
          = fin.summary.totalRevenue
     /\ reduceSum([i \in DOMAIN monthly |-> monthly[i].expense])
          = fin.summary.totalExpenses

\* two payments of one month recorded after an entry of a later month
C28_Witness ==
  /\ Len(state.payments) = 2
  /\ Len(state.expenses) = 1
  /\ state.payments[1].date # state.payments[2].date
  /\ YearMonth(state.payments[1].date) = YearMonth(state.payments[2].date)
  /\ strLess(YearMonth(state.expenses[1].date), YearMonth(state.payments[1].date))
  /\ Len(financials.monthlyData) = 2
  /\ financials.monthlyData[2].income = Lv(150)

(***************************************************************************)
(* C29.  Import and export.                                                *)
(***************************************************************************)
\* the files the file input may hold in the current state
Importable ==
  {fileOf(NotJSON)} \cup DatedFiles
    \cup (IF download.saved THEN {fileOf(download.text)} ELSE {})

\* C29: an import of a file that does not parse as JSON leaves the ledger
\* unchanged, an import of one that parses replaces the whole ledger by the
\* parsed value, and the file an export writes from ledger L parses to
\* exactly L, so that importing it restores L.
C29_ImportAllOrNothing ==
  [][ /\ \A file \in Importable :
           handleImport(file) =>
             IF file.parses THEN state' = file.json ELSE state' = state
      /\ handleExport =>
           /\ fileOf(download'.text).parses
           /\ fileOf(download'.text).json = state
      /\ ImportBackup => state' = JSONparse(download.text).value ]_vars

\* the ledger is the one of the backup file, with a payment of an empty
\* date, an equal-split expense and a dividend, after a file of another
\* ledger was exported and this one imported
C29_Witness ==
  /\ download.saved
  /\ state = JSONparse(download.text).value
  /\ storage = stored(download.text)
  /\ Len(state.payments) = 1
  /\ state.payments[1].date = EmptyDate
  /\ Len(state.expenses) = 1
  /\ Len(state.expenses[1].distributions) = 0
  /\ Len(state.dividends) = 1

(***************************************************************************)
(* C30.  Persistence.                                                      *)
(***************************************************************************)
\* the stored item is the serialization of the ledger
Persisted == storage = stored(JSONstringify(state))

\* the page loaded with this item under the key
LoadedWith(item) == startup.phase = "start" /\ storage = item

\* the saved items that parse
ValidItems == {item \in SavedItems : item.present /\ ~JSONparse(item.text).threw}

\* C30: once the effects after a state change have run the stored item is
\* the serialization of the ledger; a page loaded with a saved item S that
\* parses ends its startup with the ledger S and S stored again; a page
\* loaded with an item that does not parse keeps the initial ledger.
C30_Persistence ==
  /\ [](started => Persisted)
  /\ \A item \in ValidItems :
       LoadedWith(item)
         ~> (started /\ state = JSONparse(item.text).value /\ storage = item)
  /\ [][ (startup.phase = "start" /\ storage.present /\ JSONparse(storage.text).threw)
           => (state' = INITIAL_STATE /\ startup' = settled) ]_vars

\* the ledger of three entries that was saved, loaded and saved again (no
\* form of this specification records a payment for a project)
C30_Witness ==
  /\ started
  /\ Persisted
  /\ Len(state.payments) = 1
  /\ state.payments[1].projectId = "t1"
  /\ Len(state.expenses) = 1
  /\ state.expenses[1].date = toISODate(2023, 12, 31)
  /\ Len(state.dividends) = 1

=========================================================================
